---- MODULE Spec2Model ----
(***************************************************************************)
(* Model of scripts/keymap_converter.py and scripts/layouts.py.            *)
(*                                                                         *)
(* Text is a sequence of one-character strings.  The two regular           *)
(* expressions are modelled by what Python's backtracking matcher does     *)
(* with them: greedy quantifiers take the longest run first, lazy ones     *)
(* the shortest, and the first alternative that lets the whole pattern     *)
(* match is the one kept.                                                  *)
(***************************************************************************)
EXTENDS Integers, Sequences, FiniteSets, TLC

VARIABLES
    pc,               \* position of the caller of convert_keymap_contents
    keymap_contents,  \* the document handed to convert_keymap_contents
    mapping,          \* the token table handed to convert_keymap_contents
    converted,        \* what convert_keymap_contents returned
    restored,         \* what a second call, with the inverse table, returned
    regions,          \* observed: the header...footer regions of keymap_contents
    outRegions,       \* observed: the header...footer regions of converted
    args,             \* main: the parsed command line
    mappings_to_run,  \* main: the (src, dst) keys to convert with
    next_map,         \* main: index in mappings_to_run of the next iteration
    calls,            \* main: calls of convert_keymap_contents so far
    written,          \* main: the files written so far
    exit_status,      \* main: how the run ended
    message           \* main: the last line printed

coreVars == <<keymap_contents, mapping, converted, restored, regions, outRegions>>

mainVars == <<args, mappings_to_run, next_map, calls, written, exit_status, message>>

vars == <<pc, coreVars, mainVars>>

----------------------------------------------------------------------------
(* Character classes of Python's re on the characters the model uses.      *)

Upper == {"A", "B", "C", "D", "E", "F", "G", "H", "I", "J", "K", "L", "M",
          "N", "O", "P", "Q", "R", "S", "T", "U", "V", "W", "X", "Y", "Z"}

Lower == {"a", "b", "c", "d", "e", "f", "g", "h", "i", "j", "k", "l", "m",
          "n", "o", "p", "q", "r", "s", "t", "u", "v", "w", "x", "y", "z"}

Digit == {"0", "1", "2", "3", "4", "5", "6", "7", "8", "9"}

\* \s
Space == {" ", "\t", "\n", "\r"}

\* \w, the class \b is defined by
Word == Upper \cup Lower \cup Digit \cup {"_"}

\* [A-Z0-9_], the tail of CODE_PATTERN
TokenTail == Upper \cup Digit \cup {"_"}

NoMatch == [start |-> 0, hEnd |-> 0, bEnd |-> 0, fEnd |-> 0]

Max(S) == CHOOSE x \in S : \A y \in S : y <= x

Min(S) == CHOOSE x \in S : \A y \in S : x <= y

----------------------------------------------------------------------------
(* BASE_PATTERN, with re.MULTILINE.                                        *)

BASE == <<"B", "A", "S", "E">>

bindings == <<"b", "i", "n", "d", "i", "n", "g", "s">>

\* a literal of the pattern matches at p
LitAt(s, p, lit) ==
    /\ p + Len(lit) - 1 <= Len(s)
    /\ SubSeq(s, p, p + Len(lit) - 1) = lit

CharAt(s, p, c) == p <= Len(s) /\ s[p] = c

\* ^ under re.MULTILINE: the start of the text, or just after a newline
AtLineStart(s, p) == p = 1 \/ s[p - 1] = "\n"

\* \s* followed by a non-space literal: the whole run of white space is taken
\* (a shorter run leaves white space where the literal has to be)
RECURSIVE SkipSpace(_, _)
SkipSpace(s, p) ==
    IF p <= Len(s) /\ s[p] \in Space THEN SkipSpace(s, p + 1) ELSE p

\* (^\s*>\s*;) at p: the position after the ';', or 0
FooterEnd(s, p) ==
    LET q  == SkipSpace(s, p)
        q2 == SkipSpace(s, q + 1)
    IN  IF AtLineStart(s, p) /\ CharAt(s, q, ">") /\ CharAt(s, q2, ";")
        THEN q2 + 1
        ELSE 0

\* a greedy body, ([\s\S]*): the last position where the footer matches
FirstFooter_greedy(s, p) ==
    LET S == {q \in p..Len(s) : FooterEnd(s, q) # 0}
    IN  IF S = {} THEN 0 ELSE Max(S)

\* ([\s\S]*?) then the footer, from p: the lazy body stops at the first
\* position where the footer matches; 0 when there is none
RECURSIVE FirstFooter(_, _)
FirstFooter(s, p) ==
    IF p > Len(s) THEN 0
    ELSE IF FooterEnd(s, p) # 0 THEN p
    ELSE FirstFooter(s, p + 1)

\* bindings\s*=\s*<\s*(?:\r?\n) at k: the positions the header can end at.
\* \s* may stop before any newline of the white space after '<'.
HeaderEnds(s, k) ==
    LET q  == SkipSpace(s, k + Len(bindings))
        q2 == SkipSpace(s, q + 1)
        e  == SkipSpace(s, q2 + 1)
    IN  IF LitAt(s, k, bindings) /\ CharAt(s, q, "=") /\ CharAt(s, q2, "<")
        THEN {j + 1 : j \in {i \in (q2 + 1)..(e - 1) : s[i] = "\n"}}
        ELSE {}

\* The whole pattern tried at st.  [\s\S]*? is lazy: the first "bindings"
\* that lets the rest match; \s* before the newline is greedy: the last
\* newline that lets the rest match.
BASE_PATTERN_match(s, st) ==
    LET q1 == SkipSpace(s, st)
        q2 == SkipSpace(s, q1 + Len(BASE))
    IN  IF AtLineStart(s, st) /\ LitAt(s, q1, BASE) /\ CharAt(s, q2, "{")
        THEN LET ks == {k \in (q2 + 1)..Len(s) :
                          \E h \in HeaderEnds(s, k) : FirstFooter(s, h) # 0}
             IN  IF ks = {} THEN NoMatch
                 ELSE LET k == Min(ks)
                          h == Max({x \in HeaderEnds(s, k) : FirstFooter(s, x) # 0})
                          b == FirstFooter(s, h)
                      IN  [start |-> st, hEnd |-> h, bEnd |-> b,
                           fEnd |-> FooterEnd(s, b)]
        ELSE NoMatch

\* the matches BASE_PATTERN.sub visits: leftmost first, each search resuming
\* where the last match ended
RECURSIVE finditer(_, _)
finditer(s, pos) ==
    IF pos > Len(s) THEN <<>>
    ELSE LET m == BASE_PATTERN_match(s, pos)
         IN  IF m # NoMatch THEN <<m>> \o finditer(s, m.fEnd)
             ELSE finditer(s, pos + 1)

----------------------------------------------------------------------------
(* CODE_PATTERN                                                            *)

IsWord(b, p) == p >= 1 /\ p <= Len(b) /\ b[p] \in Word

\* \b at p (between b[p-1] and b[p])
WordBoundary(b, p) == IsWord(b, p - 1) # IsWord(b, p)

\* [A-Z0-9_]* from p, greedy
RECURSIVE RunEnd(_, _)
RunEnd(b, p) ==
    IF p <= Len(b) /\ b[p] \in TokenTail THEN RunEnd(b, p + 1) ELSE p

\* the pattern without its two \b: ([A-Z][A-Z0-9_]*)
CODE_PATTERN_match_unanchored(b, i) ==
    IF i <= Len(b) /\ b[i] \in Upper THEN RunEnd(b, i + 1) ELSE 0

\* \b([A-Z][A-Z0-9_]*)\b at i: the position after the token, or 0.  The
\* greedy run gives characters back until the closing \b holds.
CODE_PATTERN_match(b, i) ==
    IF WordBoundary(b, i) /\ i <= Len(b) /\ b[i] \in Upper
    THEN LET ends == {j \in (i + 1)..RunEnd(b, i + 1) : WordBoundary(b, j)}
         IN  IF ends = {} THEN 0 ELSE Max(ends)
    ELSE 0

\* the spans (first, last) CODE_PATTERN.sub replaces in b, left to right
RECURSIVE TokenSpans(_, _)
TokenSpans(b, i) ==
    IF i > Len(b) THEN <<>>
    ELSE LET e == CODE_PATTERN_match(b, i)
         IN  IF e # 0 THEN <<(<<i, e - 1>>)>> \o TokenSpans(b, e)
             ELSE TokenSpans(b, i + 1)

----------------------------------------------------------------------------
(* convert_keymap_contents                                                 *)

\* a replacement that is looked up again
repl_chained(token, m) ==
    LET v == IF token \in DOMAIN m THEN m[token] ELSE token
    IN  IF v \in DOMAIN m THEN m[v] ELSE v

\* mapping.get(token, token)
repl(token, m) == IF token \in DOMAIN m THEN m[token] ELSE token

\* the replaced tokens alone, what lies between them dropped
RECURSIVE CODE_PATTERN_sub_tokens_only(_, _, _)
CODE_PATTERN_sub_tokens_only(b, m, i) ==
    IF i > Len(b) THEN <<>>
    ELSE LET e == CODE_PATTERN_match(b, i)
         IN  IF e # 0
             THEN repl(SubSeq(b, i, e - 1), m) \o CODE_PATTERN_sub_tokens_only(b, m, e)
             ELSE CODE_PATTERN_sub_tokens_only(b, m, i + 1)

\* CODE_PATTERN.sub(repl, block)
RECURSIVE CODE_PATTERN_sub(_, _, _)
CODE_PATTERN_sub(b, m, i) ==
    IF i > Len(b) THEN <<>>
    ELSE LET e == CODE_PATTERN_match(b, i)
         IN  IF e # 0
             THEN repl(SubSeq(b, i, e - 1), m) \o CODE_PATTERN_sub(b, m, e)
             ELSE <<b[i]>> \o CODE_PATTERN_sub(b, m, i + 1)

\* the tokens of the whole match rewritten, header and footer included
replace_keymap_whole_match(s, mt, m) ==
    CODE_PATTERN_sub(SubSeq(s, mt.start, mt.fEnd - 1), m, 1)

\* replace_keymap(match): prefix + new_block + suffix
replace_keymap(s, mt, m) ==
    LET prefix == SubSeq(s, mt.start, mt.hEnd - 1)
        block  == SubSeq(s, mt.hEnd, mt.bEnd - 1)
        suffix == SubSeq(s, mt.bEnd, mt.fEnd - 1)
    IN  prefix \o CODE_PATTERN_sub(block, m, 1) \o suffix

\* re.sub with count = 1: the first match alone
Matches_first_only(s) ==
    LET ms == finditer(s, 1) IN IF ms = <<>> THEN <<>> ELSE <<ms[1]>>

\* the matches re.sub replaces (count = 0: all of them)
Matches(s) == finditer(s, 1)

\* BASE_PATTERN.sub(replace_keymap, s): the text between the matches is
\* copied, each match is replaced by what replace_keymap returns
RECURSIVE BASE_PATTERN_sub(_, _, _, _, _)
BASE_PATTERN_sub(s, m, ms, i, pos) ==
    IF i > Len(ms) THEN SubSeq(s, pos, Len(s))
    ELSE SubSeq(s, pos, ms[i].start - 1)
         \o replace_keymap(s, ms[i], m)
         \o BASE_PATTERN_sub(s, m, ms, i + 1, ms[i].fEnd)

\* every token of the document rewritten, block or no block
convert_keymap_contents_everywhere(s, m) == CODE_PATTERN_sub(s, m, 1)

convert_keymap_contents(s, m) == BASE_PATTERN_sub(s, m, Matches(s), 1, 1)

----------------------------------------------------------------------------
(* Inputs                                                                  *)

MaxPieces == 5

HeaderPiece == <<"B", "A", "S", "E", " ", "{", " ", "A", "\n",
                 "b", "i", "n", "d", "i", "n", "g", "s", " ", "=", " ", "<", "\n">>

FooterPiece == <<"\n", " ", ">", ";", "\n">>

TokenPiece == <<"&", "k", "p", " ", "A", " ", "1", " ", "B", "\n">>

MixedPiece == <<"a", "A", " ", "B", "1", " ", "1", "B", " ", "A", "b", "\n">>

Pieces == {HeaderPiece, FooterPiece, TokenPiece, MixedPiece}

RECURSIVE Concat(_)
Concat(ps) == IF ps = <<>> THEN <<>> ELSE Head(ps) \o Concat(Tail(ps))

Documents ==
    UNION {{Concat(ps) : ps \in [1..n -> Pieces]} : n \in 0..MaxPieces}

A == <<"A">>

B == <<"B">>

CC == <<"C", "C">>

MapChain == (A :> B) @@ (B :> CC) @@ (BASE :> A)

MapSwap == (A :> B) @@ (B :> A)

MapMerge == (A :> B) @@ (B :> B)

Mappings == {MapChain, MapSwap, MapMerge}

Injective(m) == \A k1, k2 \in DOMAIN m : m[k1] = m[k2] => k1 = k2

Range(m) == {m[k] : k \in DOMAIN m}

\* the table itself in place of its reverse
Inverse_not_reversed(m) == m

\* {v: k for k, v in m.items()} of an injective table
Inverse(m) == [v \in Range(m) |-> CHOOSE k \in DOMAIN m : m[k] = v]

----------------------------------------------------------------------------

(* convert_keymap_contents called on its own, by any caller                *)

NoArgs == [map |-> <<>>, all |-> FALSE, in_path |-> <<>>, out_path |-> <<>>,
           list_maps |-> FALSE]

Init ==
    /\ pc = "call"
    /\ keymap_contents \in Documents
    /\ mapping \in Mappings
    /\ converted = <<>>
    /\ restored = <<>>
    /\ regions = <<>>
    /\ outRegions = <<>>
    /\ args = NoArgs
    /\ mappings_to_run = <<>>
    /\ next_map = 1
    /\ calls = 0
    /\ written = <<>>
    /\ exit_status = "running"
    /\ message = ""

\* converted = convert_keymap_contents(keymap_contents, mapping)
Convert ==
    /\ pc = "call"
    /\ converted' = convert_keymap_contents(keymap_contents, mapping)
    /\ regions' = finditer(keymap_contents, 1)
    /\ outRegions' = finditer(converted', 1)
    /\ pc' = "returned"
    /\ UNCHANGED <<keymap_contents, mapping, restored, mainVars>>

\* restored = convert_keymap_contents(converted, reversed mapping)
ConvertBack ==
    /\ pc = "returned"
    /\ Injective(mapping)
    /\ restored' = convert_keymap_contents(converted, Inverse(mapping))
    /\ pc' = "restored"
    /\ UNCHANGED <<keymap_contents, mapping, converted, regions, outRegions, mainVars>>

Next == Convert \/ ConvertBack

Spec == Init /\ [][Next]_vars

----------------------------------------------------------------------------
(* layouts.py                                                              *)

QWERTY_TO_COLEMAK_DH ==
    (<<"Q">> :> <<"Q">>) @@ (<<"W">> :> <<"W">>) @@ (<<"E">> :> <<"F">>) @@
    (<<"R">> :> <<"P">>) @@ (<<"T">> :> <<"B">>) @@ (<<"Y">> :> <<"J">>) @@
    (<<"U">> :> <<"L">>) @@ (<<"I">> :> <<"U">>) @@ (<<"O">> :> <<"Y">>) @@
    (<<"P">> :> <<"A", "P", "O", "S">>) @@ (<<"A">> :> <<"A">>) @@ (<<"S">> :> <<"R">>) @@
    (<<"D">> :> <<"S">>) @@ (<<"F">> :> <<"T">>) @@ (<<"G">> :> <<"G">>) @@
    (<<"H">> :> <<"M">>) @@ (<<"J">> :> <<"N">>) @@ (<<"K">> :> <<"E">>) @@
    (<<"L">> :> <<"I">>) @@ (<<"S", "E", "M", "I", "C", "O", "L", "O", "N">> :> <<"O">>) @@ (<<"Z">> :> <<"Z">>) @@
    (<<"X">> :> <<"X">>) @@ (<<"C">> :> <<"C">>) @@ (<<"V">> :> <<"D">>) @@
    (<<"B">> :> <<"V">>) @@ (<<"N">> :> <<"K">>) @@ (<<"M">> :> <<"H">>)

QWERTY_TO_GRAPHITE ==
    (<<"Q">> :> <<"B">>) @@ (<<"W">> :> <<"L">>) @@ (<<"E">> :> <<"D">>) @@
    (<<"R">> :> <<"W">>) @@ (<<"T">> :> <<"Z">>) @@ (<<"Y">> :> <<"S", "Q", "T">>) @@
    (<<"U">> :> <<"F">>) @@ (<<"I">> :> <<"O">>) @@ (<<"O">> :> <<"U">>) @@
    (<<"P">> :> <<"J">>) @@ (<<"A">> :> <<"N">>) @@ (<<"S">> :> <<"R">>) @@
    (<<"D">> :> <<"T">>) @@ (<<"F">> :> <<"S">>) @@ (<<"G">> :> <<"G">>) @@
    (<<"H">> :> <<"Y">>) @@ (<<"J">> :> <<"H">>) @@ (<<"K">> :> <<"A">>) @@
    (<<"L">> :> <<"E">>) @@ (<<"S", "E", "M", "I", "C", "O", "L", "O", "N">> :> <<"I">>) @@ (<<"Z">> :> <<"Q">>) @@
    (<<"X">> :> <<"X">>) @@ (<<"C">> :> <<"M">>) @@ (<<"V">> :> <<"C">>) @@
    (<<"B">> :> <<"V">>) @@ (<<"N">> :> <<"K">>) @@ (<<"M">> :> <<"P">>)

QWERTY_TO_CANARY ==
    (<<"Q">> :> <<"W">>) @@ (<<"W">> :> <<"L">>) @@ (<<"E">> :> <<"Y">>) @@
    (<<"R">> :> <<"P">>) @@ (<<"T">> :> <<"B">>) @@ (<<"Y">> :> <<"Z">>) @@
    (<<"U">> :> <<"F">>) @@ (<<"I">> :> <<"O">>) @@ (<<"O">> :> <<"U">>) @@
    (<<"P">> :> <<"A", "P", "O", "S">>) @@ (<<"A">> :> <<"C">>) @@ (<<"S">> :> <<"R">>) @@
    (<<"D">> :> <<"S">>) @@ (<<"F">> :> <<"T">>) @@ (<<"G">> :> <<"G">>) @@
    (<<"H">> :> <<"M">>) @@ (<<"J">> :> <<"N">>) @@ (<<"K">> :> <<"E">>) @@
    (<<"L">> :> <<"I">>) @@ (<<"S", "E", "M", "I", "C", "O", "L", "O", "N">> :> <<"A">>) @@ (<<"Z">> :> <<"Q">>) @@
    (<<"X">> :> <<"J">>) @@ (<<"C">> :> <<"V">>) @@ (<<"V">> :> <<"D">>) @@
    (<<"B">> :> <<"K">>) @@ (<<"N">> :> <<"X">>) @@ (<<"M">> :> <<"H">>)

QWERTY_TO_FOCAL ==
    (<<"Q">> :> <<"V">>) @@ (<<"W">> :> <<"L">>) @@ (<<"E">> :> <<"H">>) @@
    (<<"R">> :> <<"G">>) @@ (<<"T">> :> <<"K">>) @@ (<<"Y">> :> <<"Q">>) @@
    (<<"U">> :> <<"F">>) @@ (<<"I">> :> <<"O">>) @@ (<<"O">> :> <<"U">>) @@
    (<<"P">> :> <<"J">>) @@ (<<"A">> :> <<"S">>) @@ (<<"S">> :> <<"R">>) @@
    (<<"D">> :> <<"N">>) @@ (<<"F">> :> <<"T">>) @@ (<<"G">> :> <<"B">>) @@
    (<<"H">> :> <<"Y">>) @@ (<<"J">> :> <<"C">>) @@ (<<"K">> :> <<"A">>) @@
    (<<"L">> :> <<"E">>) @@ (<<"S", "E", "M", "I", "C", "O", "L", "O", "N">> :> <<"I">>) @@ (<<"Z">> :> <<"Z">>) @@
    (<<"X">> :> <<"X">>) @@ (<<"C">> :> <<"M">>) @@ (<<"V">> :> <<"D">>) @@
    (<<"B">> :> <<"P">>) @@ (<<"N">> :> <<"A", "P", "O", "S">>) @@ (<<"M">> :> <<"W">>)

qwerty == <<"q", "w", "e", "r", "t", "y">>

colemak_dh == <<"c", "o", "l", "e", "m", "a", "k", "_", "d", "h">>

colemakdh == <<"c", "o", "l", "e", "m", "a", "k", "d", "h">>

graphite == <<"g", "r", "a", "p", "h", "i", "t", "e">>

canary == <<"c", "a", "n", "a", "r", "y">>

focal == <<"f", "o", "c", "a", "l">>

\* the keys of LAYOUT_MAPS in the order the dict literal inserts them
LAYOUT_MAPS_keys ==
    << <<qwerty, colemak_dh>>, <<colemakdh, qwerty>>,
       <<qwerty, graphite>>, <<graphite, qwerty>>,
       <<qwerty, canary>>, <<canary, qwerty>>,
       <<qwerty, focal>>, <<focal, qwerty>> >>

LAYOUT_MAPS ==
    (<<qwerty, colemak_dh>> :> QWERTY_TO_COLEMAK_DH) @@
    (<<colemakdh, qwerty>> :> Inverse(QWERTY_TO_COLEMAK_DH)) @@
    (<<qwerty, graphite>> :> QWERTY_TO_GRAPHITE) @@
    (<<graphite, qwerty>> :> Inverse(QWERTY_TO_GRAPHITE)) @@
    (<<qwerty, canary>> :> QWERTY_TO_CANARY) @@
    (<<canary, qwerty>> :> Inverse(QWERTY_TO_CANARY)) @@
    (<<qwerty, focal>> :> QWERTY_TO_FOCAL) @@
    (<<focal, qwerty>> :> Inverse(QWERTY_TO_FOCAL))

----------------------------------------------------------------------------
(* main: the strings and paths it handles                                  *)

ToLower ==
    ("A" :> "a") @@ ("B" :> "b") @@ ("C" :> "c") @@ ("D" :> "d") @@
    ("E" :> "e") @@ ("F" :> "f") @@ ("G" :> "g") @@ ("H" :> "h") @@
    ("I" :> "i") @@ ("J" :> "j") @@ ("K" :> "k") @@ ("L" :> "l") @@
    ("M" :> "m") @@ ("N" :> "n") @@ ("O" :> "o") @@ ("P" :> "p") @@
    ("Q" :> "q") @@ ("R" :> "r") @@ ("S" :> "s") @@ ("T" :> "t") @@
    ("U" :> "u") @@ ("V" :> "v") @@ ("W" :> "w") @@ ("X" :> "x") @@
    ("Y" :> "y") @@ ("Z" :> "z")

\* str.lower()
lower(s) == [i \in 1..Len(s) |-> IF s[i] \in DOMAIN ToLower THEN ToLower[s[i]] ELSE s[i]]

\* str.strip()
strip(s) ==
    LET keep == {i \in 1..Len(s) : s[i] \notin Space}
    IN  IF keep = {} THEN <<>> ELSE SubSeq(s, Min(keep), Max(keep))

\* str.find(sep) + 1: where sep first occurs in s, or 0
Find(s, sep) ==
    LET at == {i \in 1..Len(s) : LitAt(s, i, sep)}
    IN  IF at = {} THEN 0 ELSE Min(at)

\* s.split(sep, 1), for a sep that occurs in s
split(s, sep) ==
    <<SubSeq(s, 1, Find(s, sep) - 1), SubSeq(s, Find(s, sep) + Len(sep), Len(s))>>

ARROW == <<"-", ">">>

COLON == <<":">>

\* the first of "->", ":" that occurs in the map string; <<>> for None
Separator(m) ==
    IF Find(m, ARROW) # 0 THEN ARROW
    ELSE IF Find(m, COLON) # 0 THEN COLON
    ELSE <<>>

\* (src.strip().lower(), dst.strip().lower())
MapKey(m) ==
    LET parts == split(m, Separator(m))
    IN  <<lower(strip(parts[1])), lower(strip(parts[2]))>>

\* os.path.dirname
dirname(path) ==
    LET slashes == {i \in 1..Len(path) : path[i] = "/"}
    IN  IF slashes = {} THEN <<>> ELSE SubSeq(path, 1, Max(slashes) - 1)

dot_keymap == <<".", "k", "e", "y", "m", "a", "p">>

\* os.path.join(input_dir, f"{dst}.keymap"), input_dir = dirname or "."
DefaultOutFile(in_file, dst) ==
    (IF dirname(in_file) = <<>> THEN <<".">> ELSE dirname(in_file))
    \o <<"/">> \o dst \o dot_keymap

\* lexicographic order of two strings of lowercase letters and '_', as
\* list.sort compares the destination names
Alphabet == <<"_", "a", "b", "c", "d", "e", "f", "g", "h", "i", "j", "k", "l", "m",
              "n", "o", "p", "q", "r", "s", "t", "u", "v", "w", "x", "y", "z">>

Ord(c) == CHOOSE i \in 1..Len(Alphabet) : Alphabet[i] = c

RECURSIVE StrLess(_, _)
StrLess(x, y) ==
    IF y = <<>> THEN FALSE
    ELSE IF x = <<>> THEN TRUE
    ELSE IF Head(x) # Head(y) THEN Ord(Head(x)) < Ord(Head(y))
    ELSE StrLess(Tail(x), Tail(y))

----------------------------------------------------------------------------
(* main: the command lines and the files of the runs that are checked      *)

MapStrings ==
    { <<"q", "w", "e", "r", "t", "y", "-", ">", "c", "o", "l", "e", "m", "a", "k", "d", "h">>,
      <<"q", "w", "e", "r", "t", "y", ":", "c", "o", "l", "e", "m", "a", "k", "d", "h">>,
      <<"c", "o", "l", "e", "m", "a", "k", "d", "h", "-", ">", "q", "w", "e", "r", "t", "y">>,
      <<"q", "w", "e", "r", "t", "y", "-", ">", "c", "o", "l", "e", "m", "a", "k", "_", "d", "h">>,
      <<"q", "w", "e", "r", "t", "y", ":", "g", "r", "a", "p", "h", "i", "t", "e">>,
      <<" ", "C", "a", "n", "a", "r", "y", " ", "-", ">", " ", "Q", "W", "E", "R", "T", "Y", " ">>,
      <<"f", "o", "c", "a", "l", "-", ">", "q", "w", "e", "r", "t", "y", "-", ">", "x">>,
      <<"q", "w", "e", "r", "t", "y">> }

\* the map names the --map help text gives as examples
HelpTextMaps ==
    { <<"q", "w", "e", "r", "t", "y", "-", ">", "c", "o", "l", "e", "m", "a", "k", "d", "h">>,
      <<"q", "w", "e", "r", "t", "y", ":", "c", "o", "l", "e", "m", "a", "k", "d", "h">>,
      <<"c", "o", "l", "e", "m", "a", "k", "d", "h", "-", ">", "q", "w", "e", "r", "t", "y">> }

in_keymap == <<"i", "n", ".", "k", "e", "y", "m", "a", "p">>

cfg_in_keymap == <<"c", "f", "g", "/", "i", "n", ".", "k", "e", "y", "m", "a", "p">>

missing_keymap == <<"m", "i", "s", "s", "i", "n", "g", ".", "k", "e", "y", "m", "a", "p">>

out_keymap == <<"o", "u", "t", ".", "k", "e", "y", "m", "a", "p">>

nodir_out_keymap == <<"n", "o", "d", "i", "r", "/", "o", "u", "t", ".", "k", "e", "y", "m", "a", "p">>

\* the file system of the runs: the files and the directories that exist
ExistingFiles == {in_keymap, cfg_in_keymap}

ExistingDirs == {<<>>, <<".">>, <<"c", "f", "g">>}

\* os.path.isfile
isfile(path) == path \in ExistingFiles

\* open(path, 'w') succeeds: the directory of path exists
CanOpenForWriting(path) == dirname(path) \in ExistingDirs

\* what the input file may hold
KeymapFiles ==
    { <<"B", "A", "S", "E", " ", "{", "\n", "b", "i", "n", "d", "i", "n", "g", "s",
        " ", "=", " ", "<", "\n", "&", "k", "p", " ", "Q", " ", "&", "k", "p", " ",
        "E", " ", "&", "k", "p", " ", "S", "E", "M", "I", "C", "O", "L", "O", "N",
        "\n", ">", ";", "\n">>,
      <<"&", "k", "p", " ", "Q", " ", "&", "k", "p", " ", "P", "\n">> }

ArgSets ==
    [map : MapStrings \cup {<<>>},
     all : BOOLEAN,
     in_path : {<<>>, in_keymap, cfg_in_keymap, missing_keymap},
     out_path : {<<>>, out_keymap, nodir_out_keymap},
     list_maps : BOOLEAN]

----------------------------------------------------------------------------
(* main                                                                    *)

MainInit ==
    /\ pc = "main"
    /\ args \in ArgSets
    /\ keymap_contents = <<>>
    /\ mapping = <<>>
    /\ converted = <<>>
    /\ restored = <<>>
    /\ regions = <<>>
    /\ outRegions = <<>>
    /\ mappings_to_run = <<>>
    /\ next_map = 1
    /\ calls = 0
    /\ written = <<>>
    /\ exit_status = "running"
    /\ message = ""

\* the run ends: sys.exit, parser.error or an exception nobody catches
Exit(status, text) ==
    /\ pc' = "exit"
    /\ exit_status' = status
    /\ message' = text

\* parser.parse_args(): --map and --all are mutually exclusive
ParseArgsError ==
    /\ pc = "main"
    /\ args.map # <<>> /\ args.all
    /\ Exit("usage", "not allowed with argument")
    /\ UNCHANGED <<coreVars, args, mappings_to_run, next_map, calls, written>>

Parsed == pc = "main" /\ ~(args.map # <<>> /\ args.all)

\* --list-maps: print the maps and exit 0
ListMaps ==
    /\ Parsed
    /\ args.list_maps
    /\ Exit("ok", "Available maps:")
    /\ UNCHANGED <<coreVars, args, mappings_to_run, next_map, calls, written>>

\* parser.error: no -i/--in
RequireInPath ==
    /\ Parsed
    /\ ~args.list_maps
    /\ args.in_path = <<>>
    /\ Exit("usage", "the following arguments are required: -i/--in")
    /\ UNCHANGED <<coreVars, args, mappings_to_run, next_map, calls, written>>

\* parser.error: neither --map nor --all
RequireMapOrAll ==
    /\ Parsed
    /\ ~args.list_maps
    /\ args.in_path # <<>>
    /\ args.map = <<>> /\ ~args.all
    /\ Exit("usage", "one of the arguments -m/--map --all is required")
    /\ UNCHANGED <<coreVars, args, mappings_to_run, next_map, calls, written>>

Checked == Parsed /\ ~args.list_maps /\ args.in_path # <<>> /\ (args.map # <<>> \/ args.all)

\* --map without "->" or ":"
InvalidMapFormat ==
    /\ Checked
    /\ args.map # <<>>
    /\ Separator(args.map) = <<>>
    /\ Exit("error", "Invalid map format")
    /\ UNCHANGED <<coreVars, args, mappings_to_run, next_map, calls, written>>

\* --map names a pair that is no key of LAYOUT_MAPS
MapNotFound ==
    /\ Checked
    /\ args.map # <<>>
    /\ Separator(args.map) # <<>>
    /\ MapKey(args.map) \notin DOMAIN LAYOUT_MAPS
    /\ Exit("error", "Map not found")
    /\ UNCHANGED <<coreVars, args, mappings_to_run, next_map, calls, written>>

\* --map names a key of LAYOUT_MAPS
MapFound ==
    /\ Checked
    /\ args.map # <<>>
    /\ Separator(args.map) # <<>>
    /\ MapKey(args.map) \in DOMAIN LAYOUT_MAPS
    /\ mappings_to_run' = <<MapKey(args.map)>>
    /\ pc' = "paths"
    /\ UNCHANGED <<coreVars, args, next_map, calls, written, exit_status, message>>

\* --all: every qwerty->* map, sorted by destination
AllMaps ==
    /\ Checked
    /\ args.map = <<>>
    /\ LET from_qwerty == SelectSeq(LAYOUT_MAPS_keys, LAMBDA k : k[1] = qwerty)
       IN  IF from_qwerty = <<>>
           THEN /\ Exit("error", "No qwerty->* maps available.")
                /\ UNCHANGED mappings_to_run
           ELSE /\ mappings_to_run' =
                      SortSeq(from_qwerty, LAMBDA x, y : StrLess(x[2], y[2]))
                /\ pc' = "paths"
                /\ UNCHANGED <<exit_status, message>>
    /\ UNCHANGED <<coreVars, args, next_map, calls, written>>

\* the input file does not exist
InputFileNotFound ==
    /\ pc = "paths"
    /\ ~isfile(args.in_path)
    /\ Exit("error", "Input file not found")
    /\ UNCHANGED <<coreVars, args, mappings_to_run, next_map, calls, written>>

\* keymap_contents = f.read()
ReadInput ==
    /\ pc = "paths"
    /\ isfile(args.in_path)
    /\ keymap_contents' \in KeymapFiles
    /\ pc' = "loop"
    /\ UNCHANGED <<mapping, converted, restored, regions, outRegions, mainVars>>

\* open(out_file, 'w') raises and the exception is turned into sys.exit(1)
ConvertAndWrite_exit_on_failure ==
    /\ pc = "loop"
    /\ next_map <= Len(mappings_to_run)
    /\ LET map_key  == mappings_to_run[next_map]
           out_file == IF args.all \/ args.out_path = <<>>
                       THEN DefaultOutFile(args.in_path, map_key[2])
                       ELSE args.out_path
       IN  /\ mapping' = LAYOUT_MAPS[map_key]
           /\ converted' = convert_keymap_contents(keymap_contents, LAYOUT_MAPS[map_key])
           /\ calls' = calls + 1
           /\ IF CanOpenForWriting(out_file)
              THEN /\ written' = Append(written, [file |-> out_file, contents |-> converted'])
                   /\ next_map' = next_map + 1
                   /\ message' = "[OK] Converted"
                   /\ UNCHANGED <<pc, exit_status>>
              ELSE /\ Exit("error", "FileNotFoundError")
                   /\ UNCHANGED <<written, next_map>>
    /\ UNCHANGED <<keymap_contents, restored, regions, outRegions, args, mappings_to_run>>

\* one iteration of the loop: convert, then write the output file.  When the
\* file cannot be opened the exception ends the run with a traceback.
ConvertAndWrite ==
    /\ pc = "loop"
    /\ next_map <= Len(mappings_to_run)
    /\ LET map_key  == mappings_to_run[next_map]
           out_file == IF args.all \/ args.out_path = <<>>
                       THEN DefaultOutFile(args.in_path, map_key[2])
                       ELSE args.out_path
       IN  /\ mapping' = LAYOUT_MAPS[map_key]
           /\ converted' = convert_keymap_contents(keymap_contents, LAYOUT_MAPS[map_key])
           /\ calls' = calls + 1
           /\ IF CanOpenForWriting(out_file)
              THEN /\ written' = Append(written, [file |-> out_file, contents |-> converted'])
                   /\ next_map' = next_map + 1
                   /\ message' = "[OK] Converted"
                   /\ UNCHANGED <<pc, exit_status>>
              ELSE /\ Exit("traceback", "FileNotFoundError")
                   /\ UNCHANGED <<written, next_map>>
    /\ UNCHANGED <<keymap_contents, restored, regions, outRegions, args, mappings_to_run>>

\* the loop is over: main returns
Return ==
    /\ pc = "loop"
    /\ next_map > Len(mappings_to_run)
    /\ pc' = "exit"
    /\ exit_status' = "ok"
    /\ UNCHANGED <<coreVars, args, mappings_to_run, next_map, calls, written, message>>

MainNext ==
    \/ ParseArgsError
    \/ ListMaps
    \/ RequireInPath
    \/ RequireMapOrAll
    \/ InvalidMapFormat
    \/ MapNotFound
    \/ MapFound
    \/ AllMaps
    \/ InputFileNotFound
    \/ ReadInput
    \/ ConvertAndWrite
    \/ Return

SpecMain == MainInit /\ [][MainNext]_vars

----------------------------------------------------------------------------
(* Vocabulary of the properties                                            *)

Returned == pc \in {"returned", "restored"}

\* the output has as many header...footer regions as the input
Aligned == Len(outRegions) = Len(regions)

\* the body of region r of s
Body(s, r) == SubSeq(s, r.hEnd, r.bEnd - 1)

\* region i's body before and after the call
InBody(i) == Body(keymap_contents, regions[i])

OutBody(i) == Body(converted, outRegions[i])

\* the text of s outside the bodies: from the end of body i (the start of s
\* for i = 0) up to the start of body i + 1 (the end of s after the last)
Outside(s, rs, i) ==
    SubSeq(s, IF i = 0 THEN 1 ELSE rs[i].bEnd,
              IF i = Len(rs) THEN Len(s) ELSE rs[i + 1].hEnd - 1)

\* the tokens CODE_PATTERN finds in b, in order
Tokens(b) ==
    LET sp == TokenSpans(b, 1)
    IN  [j \in 1..Len(sp) |-> SubSeq(b, sp[j][1], sp[j][2])]

Contains(seq, x) == \E j \in 1..Len(seq) : seq[j] = x

\* b with each token replaced by one mark: what is not a token, in its order
\* relative to the tokens
RECURSIVE Skeleton(_, _)
Skeleton(b, i) ==
    IF i > Len(b) THEN <<>>
    ELSE LET e == CODE_PATTERN_match(b, i)
         IN  IF e # 0 THEN <<"TOKEN">> \o Skeleton(b, e)
             ELSE <<b[i]>> \o Skeleton(b, i + 1)

\* The token of the specification's data model: each maximal run of an
\* uppercase letter followed by uppercase letters, digits or underscores,
\* whatever stands next to it, replaced by mapping.get(run, run).
RECURSIVE RunSub(_, _, _)
RunSub(b, m, i) ==
    IF i > Len(b) THEN <<>>
    ELSE IF b[i] \in Upper
         THEN LET e == RunEnd(b, i + 1)
                  w == SubSeq(b, i, e - 1)
              IN  (IF w \in DOMAIN m THEN m[w] ELSE w) \o RunSub(b, m, e)
         ELSE <<b[i]>> \o RunSub(b, m, i + 1)

\* The whole-word reading: b is cut into maximal runs of word characters
\* (letters, digits, underscore); a run is replaced when all of it is an
\* uppercase letter followed by uppercase letters, digits or underscores and
\* it is a key; everything else is copied.
RECURSIVE WordEnd(_, _)
WordEnd(b, p) == IF p <= Len(b) /\ b[p] \in Word THEN WordEnd(b, p + 1) ELSE p

TokenShaped(w) ==
    /\ w # <<>>
    /\ w[1] \in Upper
    /\ \A j \in 2..Len(w) : w[j] \in TokenTail

RECURSIVE WordSub(_, _, _)
WordSub(b, m, i) ==
    IF i > Len(b) THEN <<>>
    ELSE IF b[i] \in Word
         THEN LET e == WordEnd(b, i)
                  w == SubSeq(b, i, e - 1)
              IN  (IF TokenShaped(w) /\ w \in DOMAIN m THEN m[w] ELSE w)
                  \o WordSub(b, m, e)
         ELSE <<b[i]>> \o WordSub(b, m, i + 1)

\* A footer-shaped line starts at p: blanks, '>', blanks, ';'
RECURSIVE SkipBlank(_, _)
SkipBlank(s, p) ==
    IF p <= Len(s) /\ s[p] \in {" ", "\t"} THEN SkipBlank(s, p + 1) ELSE p

FooterLineAt(s, p) ==
    /\ AtLineStart(s, p)
    /\ CharAt(s, SkipBlank(s, p), ">")
    /\ CharAt(s, SkipBlank(s, SkipBlank(s, p) + 1), ";")

\* the footer-shaped lines of s that start at or after p
FooterLines(s, p) == {q \in p..Len(s) : FooterLineAt(s, q)}

----------------------------------------------------------------------------
(* C1                                                                      *)

\* C1, as stated: only the first header...footer region is transformed; the
\* body of every later region is the same in the output as in the input.
C1_OnlyFirstRegionTransformed ==
    Returned =>
        /\ Aligned
        /\ \A i \in 2..Len(regions) : OutBody(i) = InBody(i)

\* C1, amended: every header...footer region that BASE_PATTERN matches, scanning
\* left to right and resuming after each footer, has its body rewritten by
\* the token substitution; later regions are rewritten like the first.
C1_EveryRegionTransformed ==
    Returned =>
        /\ Aligned
        /\ \A i \in 1..Len(regions) :
               OutBody(i) = CODE_PATTERN_sub(InBody(i), mapping, 1)

\* two regions, the second one's body holds keys and comes out changed
C1_Witness ==
    /\ pc = "returned"
    /\ Len(regions) >= 2
    /\ Aligned
    /\ \E j \in 1..Len(Tokens(InBody(2))) : Tokens(InBody(2))[j] \in DOMAIN mapping
    /\ OutBody(2) # InBody(2)

----------------------------------------------------------------------------
(* C2                                                                      *)

\* C2, as stated: the output equals the input everywhere outside the body of
\* the first region: before it (the header included) and from its footer on.
C2_OutsideFirstBodyUnchanged ==
    Returned /\ regions # <<>> =>
        /\ Aligned
        /\ SubSeq(converted, 1, outRegions[1].hEnd - 1)
             = SubSeq(keymap_contents, 1, regions[1].hEnd - 1)
        /\ SubSeq(converted, outRegions[1].bEnd, Len(converted))
             = SubSeq(keymap_contents, regions[1].bEnd, Len(keymap_contents))

\* C2, amended: the output equals the input everywhere outside the bodies of
\* the matched regions: before the first header, in every header and footer,
\* between a footer and the next header, and after the last footer.
C2_OutsideBodiesUnchanged ==
    Returned =>
        /\ Aligned
        /\ \A i \in 0..Len(regions) :
               Outside(converted, outRegions, i) = Outside(keymap_contents, regions, i)

\* keys stand before the header, in the header and after the footer, and the
\* body was rewritten
C2_Witness ==
    /\ pc = "returned"
    /\ Len(regions) = 1
    /\ Aligned
    /\ OutBody(1) # InBody(1)
    /\ Contains(Tokens(SubSeq(keymap_contents, 1, regions[1].start - 1)), A)
    /\ Contains(Tokens(SubSeq(keymap_contents, regions[1].start, regions[1].hEnd - 1)), A)
    /\ Contains(Tokens(SubSeq(keymap_contents, regions[1].start, regions[1].hEnd - 1)), BASE)
    /\ BASE \in DOMAIN mapping
    /\ Contains(Tokens(SubSeq(keymap_contents, regions[1].fEnd, Len(keymap_contents))), A)

----------------------------------------------------------------------------
(* C3                                                                      *)

\* C3: a document in which BASE_PATTERN matches nowhere is returned as it is,
\* whatever the mapping.
C3_NoBlockNoChange ==
    Returned /\ regions = <<>> => converted = keymap_contents

\* a header and keys, but no footer after the header
C3_Witness ==
    /\ pc = "returned"
    /\ regions = <<>>
    /\ \E p \in 1..Len(keymap_contents) : LitAt(keymap_contents, p, bindings)
    /\ Contains(Tokens(keymap_contents), B)
    /\ B \in DOMAIN mapping

----------------------------------------------------------------------------
(* C4                                                                      *)

\* C4, as stated: in a body every maximal run [A-Z][A-Z0-9_]* is replaced by
\* mapping.get(run, run), whatever character stands before or after it.
C4_EveryUppercaseRunReplaced ==
    Returned =>
        /\ Aligned
        /\ \A i \in 1..Len(regions) : OutBody(i) = RunSub(InBody(i), mapping, 1)

\* C4, amended: in a body a run [A-Z][A-Z0-9_]* is a token only when it is a
\* whole word, with no letter, digit or underscore directly before or after
\* it; tokens are replaced by mapping.get(token, token), and a run next to a
\* lowercase letter or a digit, like everything else, is left as it is.
C4_WholeWordTokensReplaced ==
    Returned =>
        /\ Aligned
        /\ \A i \in 1..Len(regions) : OutBody(i) = WordSub(InBody(i), mapping, 1)

\* a body where a token was replaced and a run that is a key, next to a
\* lowercase letter or a digit, was not
C4_Witness ==
    /\ pc = "returned"
    /\ Aligned
    /\ \E i \in 1..Len(regions) :
          /\ OutBody(i) # InBody(i)
          /\ OutBody(i) # RunSub(InBody(i), mapping, 1)

----------------------------------------------------------------------------
(* C5                                                                      *)

\* C5: one pass, never chained: each body token t that is a key comes out as
\* mapping[t], also when mapping[t] is itself a key.
C5_NoChainedSubstitution ==
    Returned =>
        /\ Aligned
        /\ \A i \in 1..Len(regions) :
              LET tin  == Tokens(InBody(i))
                  tout == Tokens(OutBody(i))
              IN  /\ Len(tout) = Len(tin)
                  /\ \A j \in 1..Len(tin) :
                        tin[j] \in DOMAIN mapping => tout[j] = mapping[tin[j]]

\* {A: B, B: CC}: a body with A and B comes out with B and CC
C5_Witness ==
    /\ pc = "returned"
    /\ mapping = MapChain
    /\ Aligned
    /\ \E i \in 1..Len(regions) :
          /\ Contains(Tokens(InBody(i)), A)
          /\ Contains(Tokens(InBody(i)), B)
          /\ Contains(Tokens(OutBody(i)), B)
          /\ Contains(Tokens(OutBody(i)), CC)
          /\ ~Contains(Tokens(OutBody(i)), A)

----------------------------------------------------------------------------
(* C6                                                                      *)

\* the tokens of the first region's body are all keys of the mapping
FirstBodyAllKeys ==
    /\ regions # <<>>
    /\ \A j \in 1..Len(Tokens(InBody(1))) : Tokens(InBody(1))[j] \in DOMAIN mapping

\* C6: round trip.  With a one-to-one mapping and a block body whose tokens
\* are all keys, converting and then converting with the reversed table finds
\* the same block and gives the document back up to the end of that block.
C6_RoundTrip ==
    pc = "restored" /\ FirstBodyAllKeys =>
        /\ outRegions # <<>>
        /\ outRegions[1].start = regions[1].start
        /\ outRegions[1].hEnd = regions[1].hEnd
        /\ Len(restored) >= regions[1].fEnd - 1
        /\ SubSeq(restored, 1, regions[1].fEnd - 1)
             = SubSeq(keymap_contents, 1, regions[1].fEnd - 1)

\* a body of keys that the first call changed and the second restored
C6_Witness ==
    /\ pc = "restored"
    /\ FirstBodyAllKeys
    /\ Tokens(InBody(1)) # <<>>
    /\ Aligned
    /\ OutBody(1) # InBody(1)
    /\ Len(OutBody(1)) # Len(InBody(1))

----------------------------------------------------------------------------
(* C7                                                                      *)

\* C7: what is not a token in a body (punctuation, white space, numbers,
\* lowercase words) comes out unchanged and in the same order relative to
\* the tokens; the number of tokens is kept.
C7_NonTokenTextPreserved ==
    Returned =>
        /\ Aligned
        /\ \A i \in 1..Len(regions) : Skeleton(OutBody(i), 1) = Skeleton(InBody(i), 1)

\* a rewritten body with punctuation, a lowercase word and a number
C7_Witness ==
    /\ pc = "returned"
    /\ Aligned
    /\ \E i \in 1..Len(regions) :
          /\ OutBody(i) # InBody(i)
          /\ Contains(InBody(i), "&")
          /\ Contains(Skeleton(InBody(i), 1), "k")
          /\ Contains(Skeleton(InBody(i), 1), "1")
          /\ Contains(Skeleton(InBody(i), 1), "TOKEN")

----------------------------------------------------------------------------
(* C8                                                                      *)

\* C8: a region ends at the first footer-shaped line after its header: only
\* white space lies between the body and that line, the tokens up to that
\* line are the ones rewritten, and the text from that footer to the next
\* region (or to the end) is left as it is, later footer lines or not.
C8_BodyEndsAtFirstFooterLine ==
    Returned =>
        /\ Aligned
        /\ \A i \in 1..Len(regions) :
              LET r    == regions[i]
                  L    == Min(FooterLines(keymap_contents, r.hEnd))
                  next == IF i = Len(regions) THEN Len(keymap_contents) + 1
                          ELSE regions[i + 1].start
                  onext == IF i = Len(regions) THEN Len(converted) + 1
                           ELSE outRegions[i + 1].start
              IN  /\ FooterLines(keymap_contents, r.hEnd) # {}
                  /\ r.bEnd <= L
                  /\ \A p \in r.bEnd..(L - 1) : keymap_contents[p] \in Space
                  /\ r.fEnd = SkipBlank(keymap_contents,
                                        SkipBlank(keymap_contents, L) + 1) + 1
                  /\ Tokens(OutBody(i))
                       = [j \in 1..Len(Tokens(SubSeq(keymap_contents, r.hEnd, L - 1))) |->
                            repl(Tokens(SubSeq(keymap_contents, r.hEnd, L - 1))[j], mapping)]
                  /\ SubSeq(converted, outRegions[i].fEnd, onext - 1)
                       = SubSeq(keymap_contents, r.fEnd, next - 1)

\* one region, rewritten, followed by keys and a second footer-shaped line
C8_Witness ==
    /\ pc = "returned"
    /\ Len(regions) = 1
    /\ Aligned
    /\ OutBody(1) # InBody(1)
    /\ FooterLines(keymap_contents, regions[1].fEnd) # {}
    /\ \E j \in 1..Len(Tokens(SubSeq(keymap_contents, regions[1].fEnd, Len(keymap_contents)))) :
          Tokens(SubSeq(keymap_contents, regions[1].fEnd, Len(keymap_contents)))[j]
              \in DOMAIN mapping

----------------------------------------------------------------------------
(* C9                                                                      *)

\* C9: a run that main ends with an error (sys.exit(1) after a bad map
\* string, an unknown map, no qwerty map or a missing input file, or
\* parser.error) has called convert_keymap_contents not once and has written
\* no file.
C9_ErrorsBeforeAnyTransform ==
    exit_status \in {"error", "usage"} => calls = 0 /\ written = <<>>

\* the last of the checks fails: the maps are chosen, the input file is missing
C9_Witness ==
    /\ exit_status = "error"
    /\ message = "Input file not found"
    /\ Len(mappings_to_run) > 1
    /\ calls = 0
    /\ written = <<>>

----------------------------------------------------------------------------
(* C10                                                                     *)

Reverse(k) == <<k[2], k[1]>>

\* C10: LAYOUT_MAPS is closed under reversal: the maps a run converts with
\* have their reverse pair registered, with the reversed table and no entry
\* lost, and the map names of the --map help text are found.
C10_RegistryClosedUnderReversal ==
    /\ \A i \in 1..Len(mappings_to_run) :
          LET k == mappings_to_run[i]
          IN  /\ Reverse(k) \in DOMAIN LAYOUT_MAPS
              /\ LAYOUT_MAPS[Reverse(k)] = Inverse(LAYOUT_MAPS[k])
              /\ Cardinality(DOMAIN LAYOUT_MAPS[Reverse(k)])
                   = Cardinality(DOMAIN LAYOUT_MAPS[k])
    /\ args.map \in HelpTextMaps => message # "Map not found"

====
